---- MODULE Spec2Model ----
(***************************************************************************)
(* Model of fetch_parties.py: a single sequential loop that walks the      *)
(* first-of-month dates of a configured range, issues one HTTP GET per     *)
(* date, writes each 200 response to <date>.json and counts successes and  *)
(* failures.                                                               *)
(*                                                                         *)
(* Text (HTTP bodies, file contents) is a sequence of one-character        *)
(* strings.  Console lines, file names and the date embedded in the URL    *)
(* are strings.  Python values are tagged tuples.                          *)
(***************************************************************************)
EXTENDS Integers, Sequences, FiniteSets, TLC

(***************************************************************************)
(* Bounds of the model.                                                    *)
(***************************************************************************)
\* Longest range, in months, that one run of main() walks in the model.
MaxMonths == 3
\* The model's ranges start 0..MaxStartShift months after the configured start.
MaxStartShift == 12
\* Number of times main() is run against the same output directory.
MaxRuns == 2

(***************************************************************************)
(* Python values: None, bool, int, str, list, dict.                        *)
(***************************************************************************)
None == <<"None">>
PyBool(b) == <<"bool", b>>
PyInt(n) == <<"int", n>>
PyStr(s) == <<"str", s>>
PyList(items) == <<"list", items>>
PyDict(pairs) == <<"dict", pairs>>

Digits == <<"0", "1", "2", "3", "4", "5", "6", "7", "8", "9">>
IsDigit(c) == \E k \in 1..10 : Digits[k] = c
DigitVal(c) == (CHOOSE k \in 1..10 : Digits[k] = c) - 1
IsWs(c) == c \in {" ", "\n", "\t", "\r"}

(***************************************************************************)
(* response.json(): a JSON decoder for the subset null, true, false,       *)
(* non-negative integers, strings without escapes, arrays and objects.     *)
(* Every parser returns [ok, val, pos]: pos is the index after the value.  *)
(***************************************************************************)
ParseFail == [ok |-> FALSE, val |-> None, pos |-> 0]
ParseOk(v, p) == [ok |-> TRUE, val |-> v, pos |-> p]

RECURSIVE SkipWs(_, _)
SkipWs(t, i) == IF i <= Len(t) /\ IsWs(t[i]) THEN SkipWs(t, i + 1) ELSE i

HasLiteral(t, i, lit) ==
    /\ i + Len(lit) - 1 <= Len(t)
    /\ SubSeq(t, i, i + Len(lit) - 1) = lit

RECURSIVE ScanInt(_, _, _)
ScanInt(t, i, acc) ==
    IF i <= Len(t) /\ IsDigit(t[i])
    THEN ScanInt(t, i + 1, acc * 10 + DigitVal(t[i]))
    ELSE ParseOk(PyInt(acc), i)

\* JSON forbids leading zeros: after "0" the number ends.
ParseNumber(t, i) ==
    IF t[i] = "0" THEN ParseOk(PyInt(0), i + 1) ELSE ScanInt(t, i, 0)

RECURSIVE ScanString(_, _, _)
ScanString(t, i, acc) ==
    IF i > Len(t) THEN ParseFail
    ELSE IF t[i] = "\"" THEN ParseOk(PyStr(acc), i + 1)
    ELSE IF t[i] \in {"\\", "\n"} THEN ParseFail
    ELSE ScanString(t, i + 1, Append(acc, t[i]))

\* dict[key] = value: an existing key keeps its position, last value wins.
DictSet(pairs, k, v) ==
    IF \E j \in 1..Len(pairs) : pairs[j][1] = k
    THEN [j \in 1..Len(pairs) |-> IF pairs[j][1] = k THEN <<k, v>> ELSE pairs[j]]
    ELSE Append(pairs, <<k, v>>)

RECURSIVE ParseValue(_, _)
RECURSIVE ParseItems(_, _, _)
RECURSIVE ParseMembers(_, _, _)

\* t[i] is the first character of a value (whitespace already skipped).
ParseValue(t, i) ==
    IF i > Len(t) THEN ParseFail
    ELSE IF HasLiteral(t, i, <<"n", "u", "l", "l">>) THEN ParseOk(None, i + 4)
    ELSE IF HasLiteral(t, i, <<"t", "r", "u", "e">>) THEN ParseOk(PyBool(TRUE), i + 4)
    ELSE IF HasLiteral(t, i, <<"f", "a", "l", "s", "e">>) THEN ParseOk(PyBool(FALSE), i + 5)
    ELSE IF IsDigit(t[i]) THEN ParseNumber(t, i)
    ELSE IF t[i] = "\"" THEN ScanString(t, i + 1, <<>>)
    ELSE IF t[i] = "[" THEN
        LET j == SkipWs(t, i + 1) IN
        IF j <= Len(t) /\ t[j] = "]" THEN ParseOk(PyList(<<>>), j + 1)
        ELSE ParseItems(t, j, <<>>)
    ELSE IF t[i] = "{" THEN
        LET j == SkipWs(t, i + 1) IN
        IF j <= Len(t) /\ t[j] = "}" THEN ParseOk(PyDict(<<>>), j + 1)
        ELSE ParseMembers(t, j, <<>>)
    ELSE ParseFail

\* t[i] starts an array item; acc holds the items read so far.
ParseItems(t, i, acc) ==
    LET r == ParseValue(t, i) IN
    IF ~r.ok THEN ParseFail
    ELSE LET j == SkipWs(t, r.pos)
             items == Append(acc, r.val) IN
         IF j > Len(t) THEN ParseFail
         ELSE IF t[j] = "]" THEN ParseOk(PyList(items), j + 1)
         ELSE IF t[j] = "," THEN ParseItems(t, SkipWs(t, j + 1), items)
         ELSE ParseFail

\* t[i] starts an object member ("key": value); acc holds the pairs so far.
ParseMembers(t, i, acc) ==
    IF i > Len(t) \/ t[i] # "\"" THEN ParseFail
    ELSE LET k == ScanString(t, i + 1, <<>>) IN
         IF ~k.ok THEN ParseFail
         ELSE LET c == SkipWs(t, k.pos) IN
              IF c > Len(t) \/ t[c] # ":" THEN ParseFail
              ELSE LET r == ParseValue(t, SkipWs(t, c + 1)) IN
                   IF ~r.ok THEN ParseFail
                   ELSE LET j == SkipWs(t, r.pos)
                            pairs == DictSet(acc, k.val[2], r.val) IN
                        IF j > Len(t) THEN ParseFail
                        ELSE IF t[j] = "}" THEN ParseOk(PyDict(pairs), j + 1)
                        ELSE IF t[j] = "," THEN ParseMembers(t, SkipWs(t, j + 1), pairs)
                        ELSE ParseFail

\* json.loads(text): one value surrounded by optional whitespace, else an error.
json_loads(t) ==
    LET r == ParseValue(t, SkipWs(t, 1)) IN
    IF r.ok /\ SkipWs(t, r.pos) = Len(t) + 1 THEN r ELSE ParseFail

(***************************************************************************)
(* json.dump(data, f, indent=2, ensure_ascii=False)                        *)
(***************************************************************************)
RECURSIVE IntToChars(_)
IntToChars(n) ==
    IF n < 10 THEN <<Digits[n + 1]>>
    ELSE Append(IntToChars(n \div 10), Digits[(n % 10) + 1])

RECURSIVE Spaces(_)
Spaces(n) == IF n = 0 THEN <<>> ELSE <<" ">> \o Spaces(n - 1)

JsonIndent == 2
NewlineIndent(level) == <<"\n">> \o Spaces(JsonIndent * level)

RECURSIVE json_dumps(_, _)
RECURSIVE DumpItems(_, _, _)
RECURSIVE DumpMembers(_, _, _)

json_dumps(v, level) ==
    CASE v[1] = "None" -> <<"n", "u", "l", "l">>
      [] v[1] = "bool" -> IF v[2] THEN <<"t", "r", "u", "e">>
                                  ELSE <<"f", "a", "l", "s", "e">>
      [] v[1] = "int"  -> IntToChars(v[2])
      [] v[1] = "str"  -> <<"\"">> \o v[2] \o <<"\"">>
      [] v[1] = "list" ->
            IF v[2] = <<>> THEN <<"[", "]">>
            ELSE <<"[">> \o DumpItems(v[2], 1, level + 1)
                         \o NewlineIndent(level) \o <<"]">>
      [] v[1] = "dict" ->
            IF v[2] = <<>> THEN <<"{", "}">>
            ELSE <<"{">> \o DumpMembers(v[2], 1, level + 1)
                         \o NewlineIndent(level) \o <<"}">>

DumpItems(items, k, level) ==
    IF k > Len(items) THEN <<>>
    ELSE (IF k > 1 THEN <<",">> ELSE <<>>)
         \o NewlineIndent(level) \o json_dumps(items[k], level)
         \o DumpItems(items, k + 1, level)

DumpMembers(pairs, k, level) ==
    IF k > Len(pairs) THEN <<>>
    ELSE (IF k > 1 THEN <<",">> ELSE <<>>)
         \o NewlineIndent(level)
         \o <<"\"">> \o pairs[k][1] \o <<"\"", ":", " ">>
         \o json_dumps(pairs[k][2], level)
         \o DumpMembers(pairs, k + 1, level)

(***************************************************************************)
(* Dates are <<year, month, day>>.                                         *)
(***************************************************************************)
IsLeap(y) == (y % 4 = 0 /\ y % 100 # 0) \/ y % 400 = 0

\* calendar.monthrange(year, month)[1]
DaysInMonth(y, m) ==
    IF m = 2 THEN (IF IsLeap(y) THEN 29 ELSE 28)
    ELSE IF m \in {4, 6, 9, 11} THEN 30 ELSE 31

Min(a, b) == IF a <= b THEN a ELSE b

\* month arithmetic that forgets the year: December + 1 is month 13
relativedelta_add_NoRollover(dt, n) == <<dt[1], dt[2] + n, dt[3]>>

\* dt + relativedelta(months=n), 0 <= n <= 11: the month moves on, the year
\* rolls over past December and the day is clamped to the target month.
relativedelta_add(dt, n) ==
    LET m0 == dt[2] + n
        year == IF m0 > 12 THEN dt[1] + 1 ELSE dt[1]
        month == IF m0 > 12 THEN m0 - 12 ELSE m0
    IN <<year, month, Min(DaysInMonth(year, month), dt[3])>>

\* a loop test that stops before the end date: a < b
DateLT(a, b) ==
    \/ a[1] < b[1]
    \/ a[1] = b[1] /\ a[2] < b[2]
    \/ a[1] = b[1] /\ a[2] = b[2] /\ a[3] < b[3]

\* datetime comparison a <= b
DateLE(a, b) ==
    \/ a[1] < b[1]
    \/ a[1] = b[1] /\ a[2] < b[2]
    \/ a[1] = b[1] /\ a[2] = b[2] /\ a[3] <= b[3]

\* zero-padded decimal of width 2
Pad2(n) == IF n < 10 THEN "0" \o ToString(n) ELSE ToString(n)

\* date.strftime('%Y-%m-%d') for four-digit years
strftime(dt) == ToString(dt[1]) \o "-" \o Pad2(dt[2]) \o "-" \o Pad2(dt[3])

\* date.strftime('%Y-%m-%d.json')
FileName(dt) == strftime(dt) \o ".json"

\* a month count that leaves the end month out
TotalMonths_Exclusive(s, e) == (e[1] - s[1]) * 12 + (e[2] - s[2])

\* the "Total months to process" expression of main()
TotalMonths(s, e) == (e[1] - s[1]) * 12 + (e[2] - s[2]) + 1

\* The range configured in main().
ConfiguredStart == <<1980, 1, 1>>
ConfiguredEnd == <<1990, 1, 1>>

(***************************************************************************)
(* What requests.get can produce: a response with a status code and a      *)
(* body, or a RequestException (exc is its message, "" when none).         *)
(***************************************************************************)
HttpResponse(status, text) == [exc |-> "", status_code |-> status, text |-> text]
TransportError(msg) == [exc |-> msg, status_code |-> 0, text |-> <<>>]

BodyNull == <<"n", "u", "l", "l">>
BodyParties ==
    <<"{", "\"", "i", "d", "\"", ":", "[", "4", ",", "1", "5", "]", ",",
      " ", "\"", "n", "\"", ":", "\"", "L", "\"", "}">>
BodyNotJson == <<"<", "h", "1", ">">>

Bodies == {BodyNull, BodyParties, BodyNotJson}

\* response.json() for each body of the model
response_json == [t \in Bodies |-> json_loads(t)]

Responses ==
    { HttpResponse(200, BodyNull),
      HttpResponse(200, BodyParties),
      HttpResponse(200, BodyNotJson),
      HttpResponse(404, <<>>),
      TransportError("Read timed out.") }

\* Content of a file left in the output directory by an earlier run.
StaleText == json_dumps(PyList(<<PyInt(7)>>), 0)

(***************************************************************************)
(* get_parties_data(date).  resp is what requests.get produced; caught     *)
(* tells whether the decoder's error is a RequestException (it is in       *)
(* requests >= 2.27, a plain ValueError before); both outcomes are kept.   *)
(* Result: the returned data, the lines printed, the exception raised.     *)
(***************************************************************************)
GetResult(d, lines, exc) == [data |-> d, lines |-> lines, raised |-> exc]

\* get_parties_data without its except clause: a transport error propagates
get_parties_data_Uncaught(date, resp, caught) ==
    LET date_str == strftime(date) IN
    IF resp.exc # ""
    THEN GetResult(None, <<>>, "RequestException")
    ELSE IF resp.status_code = 200
    THEN LET r == response_json[resp.text] IN
         IF r.ok THEN GetResult(r.val, <<>>, "")
         ELSE GetResult(None, <<>>, IF caught THEN "RequestException" ELSE "ValueError")
    ELSE GetResult(None,
                   <<"No data for " \o date_str \o " (Status: "
                       \o ToString(resp.status_code) \o ")">>, "")

get_parties_data(date, resp, caught) ==
    LET date_str == strftime(date) IN
    IF resp.exc # ""
    THEN GetResult(None, <<"Error fetching " \o date_str \o ": " \o resp.exc>>, "")
    ELSE IF resp.status_code = 200
    THEN LET r == response_json[resp.text] IN
         IF r.ok THEN GetResult(r.val, <<>>, "")
         ELSE IF caught
         THEN GetResult(None, <<"Error fetching " \o date_str \o ": Expecting value">>, "")
         ELSE GetResult(None, <<>>, "ValueError")
    ELSE GetResult(None,
                   <<"No data for " \o date_str \o " (Status: "
                       \o ToString(resp.status_code) \o ")">>, "")

(***************************************************************************)
(* save_parties_data(date, data).  fault names the filesystem call that    *)
(* fails ("none", "makedirs", "open", "write").                            *)
(* Result: the directory afterwards, the lines printed, the exception.     *)
(***************************************************************************)
FsFaults == {"none", "makedirs", "open", "write"}

SaveResult(ex, fs, lines, exc) ==
    [dir_exists |-> ex, files |-> fs, lines |-> lines, raised |-> exc]

\* open(filepath, 'a'): the text is added to what the file already holds
WriteFile_Append(fs, name, text) ==
    [n \in DOMAIN fs \cup {name} |->
        IF n = name THEN (IF name \in DOMAIN fs THEN fs[name] \o text ELSE text)
        ELSE fs[n]]

\* open(filepath, 'w') followed by a complete write of text
WriteFile(fs, name, text) == [n \in DOMAIN fs \cup {name} |-> IF n = name THEN text ELSE fs[n]]

save_parties_data(ex, fs, date, d, fault) ==
    LET filename == FileName(date) IN
    IF fault = "makedirs" THEN SaveResult(ex, fs, <<>>, "OSError")
    ELSE IF fault = "open" THEN SaveResult(TRUE, fs, <<>>, "OSError")
    ELSE IF fault = "write"
    THEN SaveResult(TRUE, WriteFile(fs, filename, <<>>), <<>>, "OSError")
    ELSE SaveResult(TRUE, WriteFile(fs, filename, json_dumps(d, 0)),
                    <<"Saved: " \o filename>>, "")

\* the branch taken without looking at data
IsNotNone_Always(d) == TRUE

\* the test `data is not None` of main()
IsNotNone(d) == d # None

(***************************************************************************)
(* The ranges main() is run over.  The configured range has 121 months;    *)
(* the model walks windows of it: the windows of MaxMonths months that     *)
(* start in its first MaxStartShift + 1 months (every source month and a   *)
(* year rollover), and the windows of at most MaxMonths months that end    *)
(* at the configured end.                                                  *)
(***************************************************************************)
\* the first of the month k months after the month of base
NthMonth(base, k) ==
    LET idx == base[1] * 12 + (base[2] - 1) + k
    IN <<idx \div 12, (idx % 12) + 1, 1>>

Ranges ==
    { <<NthMonth(ConfiguredStart, k), NthMonth(ConfiguredStart, k + MaxMonths - 1)>> :
        k \in 0..MaxStartShift }
    \cup
    { <<NthMonth(ConfiguredEnd, 0 - j), ConfiguredEnd>> : j \in 0..(MaxMonths - 1) }

VARIABLES
    start_date,         \* main(): start_date
    end_date,           \* main(): end_date
    current_date,       \* main(): the cursor
    success_count,      \* main(): success_count
    failure_count,      \* main(): failure_count
    data,               \* main(): the value get_parties_data returned
    pc,                 \* position of main()
    exception,          \* the exception that ended main(), "" when none
    console,            \* lines printed by this run, in order
    events,             \* calls made by this run, in order: <<kind, argument>>
    dir_exists,         \* the output directory exists
    files,              \* the output directory: file name -> text
    api,                \* what the remote API answered in the first run, by date
    run,                \* number of the current run of main()
    files_first_run     \* the output directory as the first run left it

vars == <<start_date, end_date, current_date, success_count, failure_count, data,
          pc, exception, console, events, dir_exists, files, api, run,
          files_first_run>>

NoFiles == <<>>

Init ==
    /\ \E r \in Ranges : start_date = r[1] /\ end_date = r[2]
    /\ current_date = start_date
    /\ success_count = 0
    /\ failure_count = 0
    /\ data = None
    /\ pc = "start"
    /\ exception = ""
    /\ console = <<>>
    /\ events = <<>>
    /\ \/ dir_exists = FALSE /\ files = NoFiles
       \/ dir_exists = TRUE /\ files = WriteFile(NoFiles, FileName(start_date), StaleText)
    /\ api = <<>>
    /\ run = 1
    /\ files_first_run = NoFiles

\* main(), lines 75-87: the cursor and the counters are set, the header is printed.
Start ==
    /\ pc = "start"
    /\ current_date' = start_date
    /\ success_count' = 0
    /\ failure_count' = 0
    /\ console' = <<"Fetching State of the Parties data from " \o strftime(start_date)
                      \o " to " \o strftime(end_date),
                    "Total months to process: "
                      \o ToString(TotalMonths(start_date, end_date)),
                    "------">>
    /\ pc' = "while"
    /\ UNCHANGED <<start_date, end_date, data, exception, events, dir_exists, files,
                   api, run, files_first_run>>

\* What requests.get can produce for a date: anything in the first run, what
\* the first run saw in a later run.
Answers(seen, r, date_str) == IF r = 1 THEN Responses ELSE {seen[date_str]}

\* line 89 true, line 91: data = get_parties_data(current_date)
Fetch ==
    /\ pc = "while"
    /\ DateLE(current_date, end_date)
    /\ \E resp \in Answers(api, run, strftime(current_date)) :
         /\ api' = [n \in DOMAIN api \cup {strftime(current_date)} |->
                       IF n = strftime(current_date) THEN resp ELSE api[n]]
         /\ \E caught \in BOOLEAN :
              LET r == get_parties_data(current_date, resp, caught) IN
                /\ data' = r.data
                /\ console' = console \o r.lines
                /\ exception' = r.raised
                /\ pc' = IF r.raised = "" THEN "branch" ELSE "crashed"
    /\ events' = Append(events, <<"get", strftime(current_date)>>)
    /\ UNCHANGED <<start_date, end_date, current_date, success_count, failure_count,
                   dir_exists, files, run, files_first_run>>

\* the save wrapped in a try/except that swallows the filesystem error
Persist_Swallow ==
    /\ pc = "branch"
    /\ IsNotNone(data)
    /\ \E fault \in FsFaults :
         LET r == save_parties_data(dir_exists, files, current_date, data, fault) IN
           /\ dir_exists' = r.dir_exists
           /\ files' = r.files
           /\ console' = console \o r.lines
           /\ exception' = r.raised
           /\ success_count' = success_count + 1
           /\ pc' = "advance"
    /\ events' = Append(events, <<"save", FileName(current_date)>>)
    /\ UNCHANGED <<start_date, end_date, current_date, failure_count, data, api, run,
                   files_first_run>>

\* lines 93-95: save_parties_data(current_date, data); success_count += 1
Persist ==
    /\ pc = "branch"
    /\ IsNotNone(data)
    /\ \E fault \in FsFaults :
         LET r == save_parties_data(dir_exists, files, current_date, data, fault) IN
           /\ dir_exists' = r.dir_exists
           /\ files' = r.files
           /\ console' = console \o r.lines
           /\ exception' = r.raised
           /\ success_count' = IF r.raised = "" THEN success_count + 1 ELSE success_count
           /\ pc' = IF r.raised = "" THEN "advance" ELSE "crashed"
    /\ events' = Append(events, <<"save", FileName(current_date)>>)
    /\ UNCHANGED <<start_date, end_date, current_date, failure_count, data, api, run,
                   files_first_run>>

\* lines 96-97: failure_count += 1
CountFailure ==
    /\ pc = "branch"
    /\ ~IsNotNone(data)
    /\ failure_count' = failure_count + 1
    /\ pc' = "advance"
    /\ UNCHANGED <<start_date, end_date, current_date, success_count, data, exception,
                   console, events, dir_exists, files, api, run, files_first_run>>

\* the delay moved into the success branch: a failed date is not followed by a sleep
Advance_SleepOnSuccess ==
    /\ pc = "advance"
    /\ current_date' = relativedelta_add(current_date, 1)
    /\ pc' = IF IsNotNone(data) THEN "sleep" ELSE "while"
    /\ UNCHANGED <<start_date, end_date, success_count, failure_count, data, exception,
                   console, events, dir_exists, files, api, run, files_first_run>>

\* line 100: current_date += relativedelta(months=1)
Advance ==
    /\ pc = "advance"
    /\ current_date' = relativedelta_add(current_date, 1)
    /\ pc' = "sleep"
    /\ UNCHANGED <<start_date, end_date, success_count, failure_count, data, exception,
                   console, events, dir_exists, files, api, run, files_first_run>>

\* line 103: time.sleep(0.2)
Sleep ==
    /\ pc = "sleep"
    /\ events' = Append(events, <<"sleep", "0.2">>)
    /\ pc' = "while"
    /\ UNCHANGED <<start_date, end_date, current_date, success_count, failure_count,
                   data, exception, console, dir_exists, files, api, run,
                   files_first_run>>

\* line 89 false, lines 105-106: the summary is printed and main() returns.
Finish ==
    /\ pc = "while"
    /\ ~DateLE(current_date, end_date)
    /\ console' = console \o
                    <<"------",
                      "Completed! Total successful: " \o ToString(success_count)
                        \o ", Total failed: " \o ToString(failure_count)>>
    /\ pc' = "done"
    /\ UNCHANGED <<start_date, end_date, current_date, success_count, failure_count,
                   data, exception, events, dir_exists, files, api, run,
                   files_first_run>>

\* The script is run again over the same range and the same output directory;
\* the remote API answers as it did in the first run.
Rerun ==
    /\ pc = "done"
    /\ run < MaxRuns
    /\ run' = run + 1
    /\ files_first_run' = IF run = 1 THEN files ELSE files_first_run
    /\ current_date' = start_date
    /\ success_count' = 0
    /\ failure_count' = 0
    /\ data' = None
    /\ console' = <<>>
    /\ events' = <<>>
    /\ pc' = "start"
    /\ UNCHANGED <<start_date, end_date, exception, dir_exists, files, api>>

Next ==
    \/ Start
    \/ Fetch
    \/ Persist
    \/ CountFailure
    \/ Advance
    \/ Sleep
    \/ Finish
    \/ Rerun

Spec == Init /\ [][Next]_vars

\* One run of main(): a single thread that keeps taking its next step until
\* it returns or raises.
Main ==
    \/ Start
    \/ Fetch
    \/ Persist
    \/ CountFailure
    \/ Advance
    \/ Sleep
    \/ Finish

FairSpec == Init /\ [][Main]_vars /\ WF_vars(Main)

(***************************************************************************)
(* Properties.                                                             *)
(***************************************************************************)
EventsOf(kind) == SelectSeq(events, LAMBDA e : e[1] = kind)
NumGets == Len(EventsOf("get"))
NumSaves == Len(EventsOf("save"))
NumSleeps == Len(EventsOf("sleep"))

\* the dates requested so far, as they appear in the URLs
GetDates == [i \in 1..NumGets |-> EventsOf("get")[i][2]]

\* number of first-of-month dates in [start_date, end_date], by enumeration
MonthsInRange ==
    Cardinality({ k \in 0..(MaxMonths + 1) :
                    LET d == NthMonth(start_date, k)
                    IN d[1] * 12 + d[2] <= end_date[1] * 12 + end_date[2] })

\* what the API answered for the date of the current iteration
LastResp == api[strftime(current_date)]
FetchFailed(resp) == resp.exc # "" \/ resp.status_code # 200
ReturnedJson(resp) == resp.exc = "" /\ resp.status_code = 200 /\ response_json[resp.text].ok

\* C1: between iterations and at the end success_count + failure_count is the
\* number of dates attempted; when main() returns it is the number of months
\* of the inclusive range, the value printed as "Total months to process".
C1_CountsAddUp ==
    /\ pc \in {"while", "advance", "sleep", "done"}
         => success_count + failure_count = NumGets
    /\ pc = "done"
         => /\ success_count + failure_count = MonthsInRange
            /\ success_count + failure_count = TotalMonths(start_date, end_date)
            /\ console[2] = "Total months to process: "
                              \o ToString(success_count + failure_count)

C1_Witness ==
    /\ pc = "done"
    /\ success_count >= 1
    /\ failure_count >= 2
    /\ \E n \in DOMAIN api : api[n].exc # ""
    /\ \E n \in DOMAIN api : api[n].exc = "" /\ api[n].status_code # 200

\* C2: the dates fetched in one run are the first-of-month dates of
\* [start_date, end_date] in increasing order, each exactly once: at any
\* moment a prefix of that list, and the whole list when main() returns.
C2_EachMonthOnce ==
    /\ NumGets <= MonthsInRange
    /\ \A i \in 1..NumGets : GetDates[i] = strftime(NthMonth(start_date, i - 1))
    /\ pc = "done" => NumGets = MonthsInRange

C2_Witness ==
    /\ pc = "done"
    /\ NumGets >= 3
    /\ failure_count >= 1
    /\ start_date[1] # end_date[1]

\* C3: every iteration whose fetch returned HTTP 200 with a JSON body, the
\* JSON value null included, and that runs to its end leaves the file
\* <date>.json holding the value the API returned and adds one to
\* success_count.
C3_Every200IsSaved ==
    [][(pc = "branch" /\ pc' = "advance" /\ ReturnedJson(LastResp))
         => /\ success_count' = success_count + 1
            /\ FileName(current_date) \in DOMAIN files'
            /\ json_loads(files'[FileName(current_date)]).val
                 = json_loads(LastResp.text).val]_vars

\* C4: an iteration whose fetch failed (non-200 status or transport
\* exception) raises nothing, returns None, does not call save_parties_data,
\* leaves the output directory as it was, adds one to failure_count only and
\* goes on to the cursor advance.
C4_FailedFetchIsSkipped ==
    [][/\ (pc = "while" /\ pc' # "done" /\ FetchFailed(api'[strftime(current_date)]))
            => (pc' = "branch" /\ exception' = "" /\ data' = None)
       /\ (pc = "branch" /\ FetchFailed(LastResp))
            => /\ pc' = "advance"
               /\ failure_count' = failure_count + 1
               /\ success_count' = success_count
               /\ files' = files
               /\ dir_exists' = dir_exists
               /\ events' = events
               /\ exception' = ""]_vars

C4_Witness ==
    /\ pc = "sleep"
    /\ failure_count >= 2
    /\ NumSaves = 0
    /\ \E n \in DOMAIN api : api[n].exc # ""
    /\ \E n \in DOMAIN api : api[n].exc = "" /\ api[n].status_code = 404

\* C5: main() always comes to an end; an exception ends it only in an
\* iteration whose fetch returned HTTP 200 (never after a non-200 status or a
\* transport exception), and when it returns the whole range was attempted.
C5_AlwaysCompletes ==
    /\ [](exception # "" => (pc = "crashed" /\ ~FetchFailed(LastResp)))
    /\ [](pc = "done" => NumGets = TotalMonths(start_date, end_date))
    /\ <>(pc = "done" \/ pc = "crashed")

C5_Witness ==
    /\ pc = "done"
    /\ failure_count >= 2
    /\ failure_count = TotalMonths(start_date, end_date)
    /\ \A n \in DOMAIN api : FetchFailed(api[n])

\* the line get_parties_data prints for a failed fetch of date
IsFailureLine(line, date, resp) ==
    \/ line = "No data for " \o strftime(date) \o " (Status: "
                \o ToString(resp.status_code) \o ")"
    \/ resp.exc # "" /\ line = "Error fetching " \o strftime(date) \o ": " \o resp.exc
    \/ line = "Error fetching " \o strftime(date) \o ": Expecting value"

\* C6: every increment of failure_count follows a console line, printed in
\* the same iteration, that names the date and the cause.
C6_EveryFailureIsLogged ==
    (pc = "advance" /\ ~IsNotNone(data))
      => /\ Len(console) = 3 + NumGets
         /\ IsFailureLine(console[Len(console)], current_date, LastResp)

\* C7: the cursor is always day 1 of a month, and it is the month reached from
\* start_date by as many calendar months as advances were made.
C7_CursorIsFirstOfMonth ==
    /\ current_date[3] = 1
    /\ current_date[2] \in 1..12
    /\ current_date = NthMonth(start_date, NumSleeps + (IF pc = "sleep" THEN 1 ELSE 0))

C7_Witness ==
    /\ pc = "sleep"
    /\ current_date[2] = 1
    /\ current_date[1] = start_date[1] + 1
    /\ NumSleeps >= 1

\* C8: saving a date whose file exists raises nothing and replaces that
\* file's content with the dump of the new snapshot, leaving the other files
\* alone; a second run over the same range with the same API responses
\* leaves the output directory as the first run left it.
C8_PersistIsIdempotent ==
    /\ (pc = "branch" /\ IsNotNone(data) /\ FileName(current_date) \in DOMAIN files)
         => LET r == save_parties_data(dir_exists, files, current_date, data, "none") IN
              /\ r.raised = ""
              /\ DOMAIN r.files = DOMAIN files
              /\ r.files[FileName(current_date)] = json_dumps(data, 0)
              /\ \A n \in DOMAIN files : n # FileName(current_date) => r.files[n] = files[n]
    /\ (pc = "done" /\ run >= 2) => files = files_first_run

C8_Witness ==
    /\ pc = "done"
    /\ run = 2
    /\ success_count >= 2
    /\ files = files_first_run
    /\ StaleText \notin {files[n] : n \in DOMAIN files}

\* C9: a filesystem error in save_parties_data ends main() in that
\* iteration: success_count is not incremented and no step follows (no later
\* fetch, no summary).
C9_SaveErrorEndsRun ==
    [][/\ pc # "crashed"
       /\ exception' = "OSError"
            => /\ pc = "branch"
               /\ pc' = "crashed"
               /\ success_count' = success_count
               /\ failure_count' = failure_count
               /\ current_date' = current_date
               /\ console' = console]_vars

C9_Witness ==
    /\ pc = "crashed"
    /\ exception = "OSError"
    /\ NumGets >= 2
    /\ NumGets < TotalMonths(start_date, end_date)
    /\ success_count = NumSaves - 1

\* C10: the calls of a run come in the order get(date), then save(date) only
\* when a snapshot was returned, then one sleep; every completed iteration
\* ends with its sleep, so one sleep lies between two consecutive gets.
C10_SequentialAndDelayed ==
    /\ \A i \in 1..Len(events) :
         /\ events[i][1] = "get" => (i = 1 \/ events[i - 1][1] = "sleep")
         /\ events[i][1] = "save"
              => (i > 1 /\ events[i - 1][1] = "get"
                        /\ events[i][2] = events[i - 1][2] \o ".json"
                        /\ ReturnedJson(api[events[i - 1][2]]))
         /\ events[i][1] = "sleep"
              => (i > 1 /\ events[i - 1][1] \in {"get", "save"} /\ events[i][2] = "0.2")
    /\ pc \in {"while", "done"} => NumSleeps = NumGets
    /\ pc \in {"branch", "advance", "sleep", "crashed"} => NumSleeps = NumGets - 1

C10_Witness ==
    /\ pc = "while"
    /\ NumSleeps >= 2
    /\ NumSaves >= 1
    /\ failure_count >= 1

====
